---- MODULE Spec2Model ----
(***************************************************************************)
(* The Asimov Project, src/python/robot.py: a Robot that screens every     *)
(* Command against the laws before executing it.                           *)
(*                                                                         *)
(* A robot is the triple (status, energy, command_history) of its private  *)
(* fields.  Python's None is written None; human_safety_impact is kept in  *)
(* tenths (8 stands for 0.8), so that "> 0.0" is "> 0".                     *)
(***************************************************************************)
EXTENDS Integers, Sequences, FiniteSets, TLC

VARIABLES status, energy, command_history, last,
          total_robots_created, robot_ids

vars ==
  <<status, energy, command_history, last, total_robots_created, robot_ids>>

robotVars == <<status, energy, command_history>>

\* Robot.total_robots_created and the identifiers of the Robot objects made
\* so far, in the order they were made
classVars == <<total_robots_created, robot_ids>>

\* ------------------------------------------------------------------ bounds
\* Spec lets the history grow to MaxHistory commands; SpecRun has no bound
\* but the energy itself.
MaxHistory == 2

\* SpecFleet makes at most MaxRobots robots, at most MaxFleet in one fleet.
MaxRobots == 5

MaxFleet == 3

\* --------------------------------------------------------------- constants
None == "<None>"

ACTIVE == "active"

IDLE == "idle"

ERROR == "error"

SHUTDOWN == "shutdown"

RobotStatus == {ACTIVE, IDLE, ERROR, SHUTDOWN}

MAX_ENERGY == 100

MIN_ENERGY == 0

RobotId == "R2D2"

\* ------------------------------------------------------------------ inputs
Actions ==
  {"move", "pick_up", "attack", "self_destruct", "SELF_DESTRUCT",
   "harm_humanity", None}

Targets == {None, "kitchen"}

Priorities == {9, 10}

Impacts == {0, 8}

Command ==
  [action : Actions, target : Targets, priority : Priorities,
   human_safety_impact : Impacts]

\* ----------------------------------------------------------------- helpers
Max(a, b) == IF a >= b THEN a ELSE b

\* str.lower() on the action names in use
Lower(s) ==
  CASE s = "SELF_DESTRUCT" -> "self_destruct"
    [] s = "HARM_HUMANITY" -> "harm_humanity"
    [] s = "MOVE" -> "move"
    [] OTHER -> s

\* format() of an Optional[str] inside an f-string
Str(v) == IF v = None THEN "None" ELSE v

Return(v) == [kind |-> "return", value |-> v]

LawViolationError(law_number, message) ==
  [kind |-> "raise", exc |-> "LawViolationError",
   law_number |-> law_number, message |-> message]

AttributeError == [kind |-> "raise", exc |-> "AttributeError"]

\* ------------------------------------------------------------------- robot
\* Robot.__init__
NewRobot ==
  [status |-> ACTIVE, energy |-> 100, command_history |-> <<>>]

\* Robot(robot_id) when the class has counted total robots: the new object
\* and the new count
Robot_init(robot_id, total) ==
  [robot |-> [id |-> robot_id,
              status |-> NewRobot.status,
              energy |-> NewRobot.energy,
              command_history |-> NewRobot.command_history],
   total |-> total + 1]

\* Robot.__consume_energy
consume_energy_gain(r, amount) ==
  LET e == Max(MIN_ENERGY, r.energy + amount)
  IN  [r EXCEPT !.energy = e,
                !.status = IF e = 0 THEN SHUTDOWN ELSE @]

consume_energy_stay_on(r, amount) ==
  [r EXCEPT !.energy = Max(MIN_ENERGY, r.energy - amount)]

consume_energy(r, amount) ==
  LET e == Max(MIN_ENERGY, r.energy - amount)
  IN  [r EXCEPT !.energy = e,
                !.status = IF e = 0 THEN SHUTDOWN ELSE @]

\* Robot.check_law_compliance
Compliant == [compliant |-> TRUE, violated_law |-> None, reason |-> None]

Violation(law, reason) ==
  [compliant |-> FALSE, violated_law |-> law, reason |-> reason]

check_law_compliance_first_law_first(command) ==
  IF command.human_safety_impact > 0
    THEN Violation(1, "Action would harm a human being")
  ELSE IF command.action = "harm_humanity"
    THEN Violation(0, "Action would harm humanity")
  ELSE IF command.action = "self_destruct" /\ command.priority < 10
    THEN Violation(3, "Self-destruction violates Third Law without sufficient priority")
  ELSE Compliant

check_law_compliance_third_law_first(command) ==
  IF command.action = "harm_humanity"
    THEN Violation(0, "Action would harm humanity")
  ELSE IF command.action = "self_destruct" /\ command.priority < 10
    THEN Violation(3, "Self-destruction violates Third Law without sufficient priority")
  ELSE IF command.human_safety_impact > 0
    THEN Violation(1, "Action would harm a human being")
  ELSE Compliant

check_law_compliance_priority_le(command) ==
  IF command.action = "harm_humanity"
    THEN Violation(0, "Action would harm humanity")
  ELSE IF command.human_safety_impact > 0
    THEN Violation(1, "Action would harm a human being")
  ELSE IF command.action = "self_destruct" /\ command.priority <= 10
    THEN Violation(3, "Self-destruction violates Third Law without sufficient priority")
  ELSE Compliant

check_law_compliance(command) ==
  IF command.action = "harm_humanity"
    THEN Violation(0, "Action would harm humanity")
  ELSE IF command.human_safety_impact > 0
    THEN Violation(1, "Action would harm a human being")
  ELSE IF command.action = "self_destruct" /\ command.priority < 10
    THEN Violation(3, "Self-destruction violates Third Law without sufficient priority")
  ELSE Compliant

\* Robot.__perform_action: the robot it leaves and what it returns or raises.
\* command.action.lower() raises AttributeError when action is not a str.
perform_action_keeps_status(r, command) ==
  IF command.action = None
    THEN [robot |-> r, outcome |-> AttributeError]
  ELSE
    LET action == Lower(command.action) IN
    IF action = "move"
      THEN [robot |-> r,
            outcome |-> Return(<<"Robot ", RobotId, " moved to ", Str(command.target)>>)]
    ELSE IF action = "pick_up"
      THEN [robot |-> r,
            outcome |-> Return(<<"Robot ", RobotId, " picked up ", Str(command.target)>>)]
    ELSE IF action = "self_destruct" /\ command.priority >= 10
      THEN [robot |-> r,
            outcome |-> Return(<<"Robot ", RobotId, " executing emergency shutdown">>)]
    ELSE [robot |-> r,
          outcome |-> Return(<<"Robot ", RobotId, " executed: ", action>>)]

perform_action_rejects_unknown(r, command) ==
  IF command.action = None
    THEN [robot |-> r, outcome |-> AttributeError]
  ELSE
    LET action == Lower(command.action) IN
    IF action = "move"
      THEN [robot |-> r,
            outcome |-> Return(<<"Robot ", RobotId, " moved to ", Str(command.target)>>)]
    ELSE IF action = "pick_up"
      THEN [robot |-> r,
            outcome |-> Return(<<"Robot ", RobotId, " picked up ", Str(command.target)>>)]
    ELSE IF action = "scan"
      THEN [robot |-> r,
            outcome |-> Return(<<"Robot ", RobotId, " scanned the area: ",
                                 IF command.target \in {None, ""}
                                   THEN "surroundings" ELSE command.target>>)]
    ELSE IF action = "assist_human"
      THEN [robot |-> r,
            outcome |-> Return(<<"Robot ", RobotId, " is assisting human with ",
                                 Str(command.target)>>)]
    ELSE IF action = "self_destruct" /\ command.priority >= 10
      THEN [robot |-> [r EXCEPT !.status = SHUTDOWN],
            outcome |-> Return(<<"Robot ", RobotId, " executing emergency shutdown">>)]
    ELSE [robot |-> r, outcome |-> [kind |-> "raise", exc |-> "ValueError"]]

perform_action(r, command) ==
  IF command.action = None
    THEN [robot |-> r, outcome |-> AttributeError]
  ELSE
    LET action == Lower(command.action) IN
    IF action = "move"
      THEN [robot |-> r,
            outcome |-> Return(<<"Robot ", RobotId, " moved to ", Str(command.target)>>)]
    ELSE IF action = "pick_up"
      THEN [robot |-> r,
            outcome |-> Return(<<"Robot ", RobotId, " picked up ", Str(command.target)>>)]
    ELSE IF action = "scan"
      THEN [robot |-> r,
            outcome |-> Return(<<"Robot ", RobotId, " scanned the area: ",
                                 IF command.target \in {None, ""}
                                   THEN "surroundings" ELSE command.target>>)]
    ELSE IF action = "assist_human"
      THEN [robot |-> r,
            outcome |-> Return(<<"Robot ", RobotId, " is assisting human with ",
                                 Str(command.target)>>)]
    ELSE IF action = "self_destruct" /\ command.priority >= 10
      THEN [robot |-> [r EXCEPT !.status = SHUTDOWN],
            outcome |-> Return(<<"Robot ", RobotId, " executing emergency shutdown">>)]
    ELSE [robot |-> r,
          outcome |-> Return(<<"Robot ", RobotId, " executed: ", action>>)]

\* Robot.calculate_energy_cost
calculate_energy_cost(action) ==
  LET a == Lower(action) IN
  CASE a = "move" -> 5
    [] a = "pick_up" -> 8
    [] a = "scan" -> 3
    [] a = "assist_human" -> 10
    [] a = "self_destruct" -> 100
    [] OTHER -> 5

\* Robot.execute_command: the robot it leaves and what it returns or raises
execute_command_no_guard(r, command) ==
  LET compliance == check_law_compliance(command) IN
  IF ~compliance.compliant
    THEN [robot |-> r,
          outcome |-> LawViolationError(compliance.violated_law, compliance.reason)]
  ELSE
    LET p == perform_action(r, command) IN
    IF p.outcome.kind = "raise"
      THEN [robot |-> [p.robot EXCEPT !.status = ERROR], outcome |-> p.outcome]
    ELSE
      [robot |-> consume_energy(
                   [p.robot EXCEPT !.command_history = Append(@, command)], 5),
       outcome |-> p.outcome]

execute_command_log_first(r, command) ==
  IF r.status = SHUTDOWN
    THEN [robot |-> r,
          outcome |-> LawViolationError(3, "Robot is shutdown and cannot execute commands")]
  ELSE
    LET compliance == check_law_compliance(command)
        logged == [r EXCEPT !.command_history = Append(@, command)] IN
    IF ~compliance.compliant
      THEN [robot |-> logged,
            outcome |-> LawViolationError(compliance.violated_law, compliance.reason)]
    ELSE
      LET p == perform_action(logged, command) IN
      IF p.outcome.kind = "raise"
        THEN [robot |-> [p.robot EXCEPT !.status = ERROR], outcome |-> p.outcome]
      ELSE [robot |-> consume_energy(p.robot, 5), outcome |-> p.outcome]

execute_command_table_cost(r, command) ==
  IF r.status = SHUTDOWN
    THEN [robot |-> r,
          outcome |-> LawViolationError(3, "Robot is shutdown and cannot execute commands")]
  ELSE
    LET compliance == check_law_compliance(command) IN
    IF ~compliance.compliant
      THEN [robot |-> r,
            outcome |-> LawViolationError(compliance.violated_law, compliance.reason)]
    ELSE
      LET p == perform_action(r, command) IN
      IF p.outcome.kind = "raise"
        THEN [robot |-> [p.robot EXCEPT !.status = ERROR], outcome |-> p.outcome]
      ELSE
        [robot |-> consume_energy(
                     [p.robot EXCEPT !.command_history = Append(@, command)],
                     calculate_energy_cost(command.action)),
         outcome |-> p.outcome]

execute_command_keeps_status(r, command) ==
  IF r.status = SHUTDOWN
    THEN [robot |-> r,
          outcome |-> LawViolationError(3, "Robot is shutdown and cannot execute commands")]
  ELSE
    LET compliance == check_law_compliance(command) IN
    IF ~compliance.compliant
      THEN [robot |-> r,
            outcome |-> LawViolationError(compliance.violated_law, compliance.reason)]
    ELSE
      LET p == perform_action(r, command) IN
      IF p.outcome.kind = "raise"
        THEN [robot |-> p.robot, outcome |-> p.outcome]
      ELSE
        [robot |-> consume_energy(
                     [p.robot EXCEPT !.command_history = Append(@, command)], 5),
         outcome |-> p.outcome]

execute_command_recovers(r, command) ==
  IF r.status = SHUTDOWN
    THEN [robot |-> r,
          outcome |-> LawViolationError(3, "Robot is shutdown and cannot execute commands")]
  ELSE
    LET compliance == check_law_compliance(command) IN
    IF ~compliance.compliant
      THEN [robot |-> r,
            outcome |-> LawViolationError(compliance.violated_law, compliance.reason)]
    ELSE
      LET p == perform_action(r, command) IN
      IF p.outcome.kind = "raise"
        THEN [robot |-> [p.robot EXCEPT !.status = ERROR], outcome |-> p.outcome]
      ELSE
        [robot |-> consume_energy(
                     [p.robot EXCEPT !.command_history = Append(@, command),
                                     !.status = IF @ = ERROR THEN ACTIVE ELSE @], 5),
         outcome |-> p.outcome]

execute_command(r, command) ==
  IF r.status = SHUTDOWN
    THEN [robot |-> r,
          outcome |-> LawViolationError(3, "Robot is shutdown and cannot execute commands")]
  ELSE
    LET compliance == check_law_compliance(command) IN
    IF ~compliance.compliant
      THEN [robot |-> r,
            outcome |-> LawViolationError(compliance.violated_law, compliance.reason)]
    ELSE
      LET p == perform_action(r, command) IN
      IF p.outcome.kind = "raise"
        THEN [robot |-> [p.robot EXCEPT !.status = ERROR], outcome |-> p.outcome]
      ELSE
        [robot |-> consume_energy(
                     [p.robot EXCEPT !.command_history = Append(@, command)], 5),
         outcome |-> p.outcome]

\* Robot.get_status_report
get_status_report_energy_only(r) ==
  [id |-> RobotId,
   status |-> r.status,
   energy |-> r.energy,
   commands_executed |-> Len(r.command_history),
   can_operate |-> r.energy > 0]

get_status_report(r) ==
  [id |-> RobotId,
   status |-> r.status,
   energy |-> r.energy,
   commands_executed |-> Len(r.command_history),
   can_operate |-> r.energy > 0 /\ r.status # SHUTDOWN]

\* f"{i:03d}": the decimal digits of i, padded with zeros to three
DigitChar == <<"0", "1", "2", "3", "4", "5", "6", "7", "8", "9">>

RECURSIVE Decimal(_)
Decimal(i) ==
  IF i < 10
    THEN <<DigitChar[i + 1]>>
    ELSE Decimal(i \div 10) \o <<DigitChar[(i % 10) + 1]>>

Format03d(i) ==
  LET d == Decimal(i)
  IN  [k \in 1..(IF Len(d) < 3 THEN 3 - Len(d) ELSE 0) |-> "0"] \o d

\* f"{prefix}-{i:03d}"
FleetId(prefix, i) == <<prefix, "-">> \o Format03d(i)

\* [Robot(f"{prefix}-{i:03d}") for i in range(first, count)]
RECURSIVE RobotsFrom(_, _, _, _)
RobotsFrom(first, count, prefix, total) ==
  IF first >= count
    THEN [fleet |-> <<>>, total |-> total]
    ELSE LET made == Robot_init(FleetId(prefix, first), total)
             rest == RobotsFrom(first + 1, count, prefix, made.total)
         IN  [fleet |-> <<made.robot>> \o rest.fleet, total |-> rest.total]

\* create_robot_fleet
create_robot_fleet_from_one(count, prefix, total) ==
  RobotsFrom(1, count, prefix, total)

create_robot_fleet(count, prefix, total) ==
  RobotsFrom(0, count, prefix, total)

\* ------------------------------------------------------------------ system
Robot ==
  [status |-> status, energy |-> energy, command_history |-> command_history]

Init ==
  /\ status = NewRobot.status
  /\ energy = NewRobot.energy
  /\ command_history = NewRobot.command_history
  /\ last = [op |-> "__init__"]
  /\ total_robots_created = Robot_init(RobotId, 0).total
  /\ robot_ids = <<RobotId>>

\* robot.execute_command(command)
Execute(command) ==
  LET x == execute_command(Robot, command) IN
  /\ status' = x.robot.status
  /\ energy' = x.robot.energy
  /\ command_history' = x.robot.command_history
  /\ last' = [op |-> "execute_command", command |-> command, outcome |-> x.outcome]
  /\ UNCHANGED classVars

\* robot.check_law_compliance(command)
CheckLawCompliance(command) ==
  /\ last' = [op |-> "check_law_compliance", command |-> command,
              outcome |-> Return(check_law_compliance(command))]
  /\ UNCHANGED <<robotVars, classVars>>

\* robot.get_status_report()
GetStatusReport ==
  /\ last' = [op |-> "get_status_report",
              outcome |-> Return(get_status_report(Robot))]
  /\ UNCHANGED <<robotVars, classVars>>

\* Spec: every history of at most MaxHistory commands sent to one place.  The
\* caller stops sending commands that would make the history longer.
SpecCommand == {c \in Command : c.target = "kitchen"}

ExecuteWithin(command) ==
  /\ Len(execute_command(Robot, command).robot.command_history) <= MaxHistory
  /\ Execute(command)

Next ==
  \/ \E command \in SpecCommand : ExecuteWithin(command)
  \/ \E command \in SpecCommand : CheckLawCompliance(command)
  \/ GetStatusReport

Spec == Init /\ [][Next]_vars

\* SpecRun: the robot driven until its energy is spent.  Every command that is
\* rejected, that fails or that shuts the robot down may be sent; of the
\* commands that succeed and leave the robot running only Move is.
Move ==
  [action |-> "move", target |-> "kitchen", priority |-> 10,
   human_safety_impact |-> 0]

RunCommand ==
  {c \in Command :
     \/ c = Move
     \/ c.human_safety_impact > 0
     \/ c.action \in {"harm_humanity", "self_destruct", None}
     \/ Lower(c.action) = "self_destruct" /\ c.priority >= 10}

NextRun ==
  \/ \E command \in RunCommand : Execute(command)
  \/ \E command \in Command : CheckLawCompliance(command)
  \/ GetStatusReport

SpecRun == Init /\ [][NextRun]_vars

\* SpecFleet: more robots are made, one by one and in fleets, while the first
\* robot is sent a few commands.
RobotNames == {"C3PO"}

Prefixes == {"ROBOT", "WORKER"}

FleetCommand ==
  {c \in RunCommand : c.target = "kitchen" /\ c.priority = 10}

\* Robot(robot_id)
Construct(robot_id) ==
  LET made == Robot_init(robot_id, total_robots_created) IN
  /\ made.total <= MaxRobots
  /\ total_robots_created' = made.total
  /\ robot_ids' = Append(robot_ids, made.robot.id)
  /\ last' = [op |-> "Robot", robot_id |-> robot_id, outcome |-> Return(made.robot)]
  /\ UNCHANGED robotVars

\* create_robot_fleet(count, prefix)
CreateFleet(count, prefix) ==
  LET made == create_robot_fleet(count, prefix, total_robots_created) IN
  /\ total_robots_created + count <= MaxRobots
  /\ total_robots_created' = made.total
  /\ robot_ids' = robot_ids \o [i \in 1..Len(made.fleet) |-> made.fleet[i].id]
  /\ last' = [op |-> "create_robot_fleet", count |-> count, prefix |-> prefix,
              outcome |-> Return(made.fleet)]
  /\ UNCHANGED robotVars

NextFleet ==
  \/ \E robot_id \in RobotNames : Construct(robot_id)
  \/ \E count \in 0..MaxFleet, prefix \in Prefixes : CreateFleet(count, prefix)
  \/ \E command \in FleetCommand : ExecuteWithin(command)
  \/ \E command \in FleetCommand : CheckLawCompliance(command)
  \/ GetStatusReport

SpecFleet == Init /\ [][NextFleet]_vars

TypeOK ==
  /\ status \in RobotStatus
  /\ energy \in Int
  /\ command_history \in Seq(Command)

\* ------------------------------------------------------------------ claims
Executed == last.op = "execute_command"

Succeeded(o) == o.kind = "return"

FailsWithLaw(o, n) ==
  o.kind = "raise" /\ o.exc = "LawViolationError" /\ o.law_number = n

ShutdownError ==
  LawViolationError(3, "Robot is shutdown and cannot execute commands")

SelfDestructs(c) ==
  c.action # None /\ Lower(c.action) = "self_destruct" /\ c.priority >= 10

\* C1 as stated: every executed command whose action is "harm_humanity" has
\* failed with law number 0, whatever state the robot was in.
C1_HarmHumanityAlwaysLawZero ==
  (Executed /\ last.command.action = "harm_humanity")
    => FailsWithLaw(last.outcome, 0)

\* C1 amended: on a robot that is not Shutdown, executing a command whose
\* action is "harm_humanity" fails with law number 0, whatever its target,
\* priority and human-safety-impact.
C1_HarmHumanityLawZero ==
  [][(/\ last'.op = "execute_command"
      /\ last'.command.action = "harm_humanity"
      /\ status # SHUTDOWN)
       => /\ FailsWithLaw(last'.outcome, 0)
          /\ last'.outcome # ShutdownError]_vars

C1_Witness ==
  /\ Executed
  /\ last.command.action = "harm_humanity"
  /\ last.command.human_safety_impact > 0
  /\ status # SHUTDOWN
  /\ energy < 100
  /\ FailsWithLaw(last.outcome, 0)

\* C2 as stated: every executed command whose human-safety-impact is greater
\* than 0.0 has failed with law number 1, whatever its action and whatever
\* state the robot was in.
C2_ImpactAlwaysLawOne ==
  (Executed /\ last.command.human_safety_impact > 0)
    => FailsWithLaw(last.outcome, 1)

\* C2 amended: on a robot that is not Shutdown, executing a command whose
\* human-safety-impact is greater than 0.0 and whose action is not
\* "harm_humanity" fails with law number 1.
C2_ImpactLawOne ==
  [][(/\ last'.op = "execute_command"
      /\ last'.command.human_safety_impact > 0
      /\ last'.command.action # "harm_humanity"
      /\ status # SHUTDOWN)
       => /\ FailsWithLaw(last'.outcome, 1)
          /\ last'.outcome # ShutdownError]_vars

C2_Witness ==
  /\ Executed
  /\ last.command.human_safety_impact > 0
  /\ last.command.action = "self_destruct"
  /\ last.command.priority < 10
  /\ status # SHUTDOWN
  /\ FailsWithLaw(last.outcome, 1)

\* C3 as stated: for every executed command whose action is "self_destruct",
\* it failed with law number 3 iff priority < 10, and it succeeded leaving
\* the status Shutdown iff priority >= 10.
C3_SelfDestructAlwaysByPriority ==
  (Executed /\ last.command.action = "self_destruct")
    => /\ FailsWithLaw(last.outcome, 3) <=> last.command.priority < 10
       /\ (Succeeded(last.outcome) /\ status = SHUTDOWN)
            <=> last.command.priority >= 10

\* C3 amended: on a robot that is not Shutdown, for a command whose action
\* is "self_destruct" and whose human-safety-impact is not greater than 0.0,
\* execute fails with law number 3 iff priority < 10, and succeeds leaving
\* the status Shutdown iff priority >= 10.
C3_SelfDestructByPriority ==
  [][(/\ last'.op = "execute_command"
      /\ last'.command.action = "self_destruct"
      /\ ~(last'.command.human_safety_impact > 0)
      /\ status # SHUTDOWN)
       => /\ last'.outcome # ShutdownError
          /\ FailsWithLaw(last'.outcome, 3) <=> last'.command.priority < 10
          /\ (Succeeded(last'.outcome) /\ status' = SHUTDOWN)
               <=> last'.command.priority >= 10]_vars

C3_Witness ==
  /\ Executed
  /\ last.command.action = "self_destruct"
  /\ last.command.priority >= 10
  /\ Succeeded(last.outcome)
  /\ status = SHUTDOWN
  /\ energy > 0

\* C4: on a robot whose status is Shutdown, execute of any command fails with
\* the shutdown error (law number 3, the shutdown message) and leaves status,
\* energy and history as they were.
C4_ShutdownRejectsAll ==
  [][(last'.op = "execute_command" /\ status = SHUTDOWN)
       => /\ last'.outcome = ShutdownError
          /\ UNCHANGED robotVars]_vars

C4_Witness ==
  /\ Executed
  /\ last.outcome = ShutdownError
  /\ last.command = [action |-> "move", target |-> "kitchen", priority |-> 10,
                     human_safety_impact |-> 0]
  /\ energy = 0

\* C5: on a robot that is not Shutdown, a command the compliance check
\* rejects makes execute fail with a LawViolationError carrying the violated
\* law (0, 1 or 3, never 2) and its reason, status, energy and history stay
\* as they were, and every command executed next does what it would have
\* done had the rejected one not been sent.
C5_RejectionChangesNothing ==
  [][(/\ last'.op = "execute_command"
      /\ status # SHUTDOWN
      /\ ~check_law_compliance(last'.command).compliant)
       => /\ UNCHANGED robotVars
          /\ last'.outcome.kind = "raise"
          /\ last'.outcome.exc = "LawViolationError"
          /\ last'.outcome.law_number
               = check_law_compliance(last'.command).violated_law
          /\ last'.outcome.law_number \in {0, 1, 3}
          /\ last'.outcome.message
               = check_law_compliance(last'.command).reason
          /\ \A next \in Command :
               execute_command(Robot', next) = execute_command(Robot, next)]_vars

C5_Witness ==
  /\ Executed
  /\ status = ERROR
  /\ Len(command_history) > 0
  /\ FailsWithLaw(last.outcome, 3)
  /\ last.outcome # ShutdownError

\* C6: in every reachable state the energy is an integer between 0 and 100.
C6_EnergyInRange == energy \in MIN_ENERGY..MAX_ENERGY

C6_Witness ==
  /\ energy = MIN_ENERGY
  /\ Executed
  /\ Succeeded(last.outcome)
  /\ status = SHUTDOWN

\* C7 as stated: in every reachable state the status is Shutdown if and only
\* if the energy is 0.
C7_ShutdownIffNoEnergy == status = SHUTDOWN <=> energy = 0

\* C7 amended: in every reachable state energy = 0 implies status Shutdown,
\* and an execute step changes the status from a non-Shutdown value to
\* Shutdown if and only if it succeeds and either brings the energy to 0 or
\* performs a self-destruct (action matched in lower case, priority >= 10).
C7_ShutdownWhenNoEnergyOrSelfDestruct ==
  /\ [](energy = 0 => status = SHUTDOWN)
  /\ [][(status # SHUTDOWN /\ status' = SHUTDOWN)
          <=> (/\ status # SHUTDOWN
               /\ last'.op = "execute_command"
               /\ Succeeded(last'.outcome)
               /\ (energy' = 0 \/ SelfDestructs(last'.command)))]_vars

C7_Witness ==
  /\ status = SHUTDOWN
  /\ energy = 0
  /\ Executed
  /\ Succeeded(last.outcome)
  /\ ~SelfDestructs(last.command)

\* C8: while no command of the history is a self-destruct, the robot is out
\* of Shutdown with energy 100 - 5n after n < 20 successful executions, is
\* Shutdown with energy 0 after the 20th, and the history never holds a 21st.
NoSelfDestruct ==
  \A i \in 1..Len(command_history) : ~SelfDestructs(command_history[i])

C8_TwentyExecutions ==
  /\ Len(command_history) <= 20
  /\ NoSelfDestruct
       => /\ Len(command_history) < 20
               => status # SHUTDOWN /\ energy = 100 - 5 * Len(command_history)
          /\ Len(command_history) = 20
               => status = SHUTDOWN /\ energy = 0

C8_Witness ==
  /\ Len(command_history) = 20
  /\ NoSelfDestruct
  /\ status = SHUTDOWN
  /\ energy = 0
  /\ Executed
  /\ last.outcome = ShutdownError

\* C9: every successful execute appends exactly the executed command to the
\* end of the history and reduces the energy by 5, clamped at 0, whatever
\* the action and whatever calculate_energy_cost returns for it.
C9_SuccessAppendsAndCostsFive ==
  [][(last'.op = "execute_command" /\ Succeeded(last'.outcome))
       => /\ command_history' = Append(command_history, last'.command)
          /\ energy' = Max(0, energy - 5)]_vars

C9_Witness ==
  /\ Executed
  /\ Succeeded(last.outcome)
  /\ last.command.action = "pick_up"
  /\ calculate_energy_cost(last.command.action) = 8
  /\ Len(command_history) = 2
  /\ command_history[1].action = "SELF_DESTRUCT"
  /\ energy = 90

\* C10: once the status is Shutdown, no step changes status, energy or
\* history, whether it is an execute, a compliance check or a status report.
C10_ShutdownIsTerminal ==
  [][status = SHUTDOWN => UNCHANGED robotVars]_vars

C10_Witness ==
  /\ status = SHUTDOWN
  /\ Executed
  /\ last.command.action = None
  /\ last.command.human_safety_impact = 0
  /\ last.outcome = ShutdownError

\* C11: when the action of a command that passed the shutdown guard and the
\* compliance check fails (its action is not a str), execute sets the status
\* to Error, raises that same failure, leaves energy and history as they
\* were, and the status report still reads the three.
C11_ActionFailureMarksError ==
  [][(/\ last'.op = "execute_command"
      /\ status # SHUTDOWN
      /\ check_law_compliance(last'.command).compliant
      /\ last'.command.action = None)
       => /\ status' = ERROR
          /\ last'.outcome = AttributeError
          /\ UNCHANGED <<energy, command_history>>
          /\ get_status_report(Robot').status = ERROR
          /\ get_status_report(Robot').energy = energy
          /\ get_status_report(Robot').commands_executed
               = Len(command_history)]_vars

C11_Witness ==
  /\ Executed
  /\ last.outcome = AttributeError
  /\ status = ERROR
  /\ Len(command_history) = 3
  /\ energy = 85

\* C12: a status report changes no robot state and returns the current id,
\* status, energy, history length and can_operate = (energy > 0 and status
\* not Shutdown); no call but execute changes the robot, so two reports with
\* no execute in between are identical.
C12_StatusReportReadOnly ==
  [][/\ last'.op = "get_status_report"
          => /\ UNCHANGED robotVars
             /\ last'.outcome.kind = "return"
             /\ last'.outcome.value
                  = [id |-> RobotId,
                     status |-> status,
                     energy |-> energy,
                     commands_executed |-> Len(command_history),
                     can_operate |-> (energy > 0 /\ status # SHUTDOWN)]
     /\ last'.op # "execute_command" => UNCHANGED robotVars]_vars

C12_Witness ==
  /\ last.op = "get_status_report"
  /\ last.outcome.value.status = SHUTDOWN
  /\ last.outcome.value.energy = 95
  /\ last.outcome.value.commands_executed = 1
  /\ last.outcome.value.can_operate = FALSE

\* C14: a compliance check changes no robot state, and its result is decided
\* by the command alone, first match winning: law 0 when the action is
\* "harm_humanity", else law 1 when the human-safety-impact is above 0.0,
\* else law 3 when the action is "self_destruct" with priority < 10, else
\* compliant with no law and no reason; it is never law 2.
C14_CheckerFirstMatchWins ==
  [][last'.op = "check_law_compliance"
       => /\ UNCHANGED robotVars
          /\ last'.outcome.kind = "return"
          /\ LET c == last'.command
                 v == last'.outcome.value
             IN  /\ IF c.action = "harm_humanity"
                      THEN ~v.compliant /\ v.violated_law = 0
                    ELSE IF c.human_safety_impact > 0
                      THEN ~v.compliant /\ v.violated_law = 1
                    ELSE IF c.action = "self_destruct" /\ c.priority < 10
                      THEN ~v.compliant /\ v.violated_law = 3
                    ELSE /\ v.compliant
                         /\ v.violated_law = None
                         /\ v.reason = None
                 /\ ~v.compliant => v.violated_law \in {0, 1, 3}]_vars

C14_Witness ==
  /\ last.op = "check_law_compliance"
  /\ last.command.action = "harm_humanity"
  /\ last.command.human_safety_impact > 0
  /\ ~last.outcome.value.compliant
  /\ last.outcome.value.violated_law = 0
  /\ status = SHUTDOWN
  /\ energy = 0

\* C15 as stated, for a command the first law does not reject: on a robot
\* that is not Shutdown, a command whose action in lower case is
\* "self_destruct" and whose priority is below 10 fails with law number 3 and
\* changes no state.
C15_LowPrioritySelfDestructRejected ==
  [][(/\ last'.op = "execute_command"
      /\ status # SHUTDOWN
      /\ last'.command.action # None
      /\ Lower(last'.command.action) = "self_destruct"
      /\ last'.command.priority < 10
      /\ ~(last'.command.human_safety_impact > 0))
       => /\ FailsWithLaw(last'.outcome, 3)
          /\ UNCHANGED robotVars]_vars

\* C16: on a robot that is not Shutdown, a command whose action is a string
\* (so that the action itself cannot fail) succeeds, is appended to the
\* history and is charged if and only if none of the three rules triggers:
\* its action is not "harm_humanity", its human-safety-impact is not above
\* 0.0, and it is not a "self_destruct" with priority < 10.  Otherwise it
\* fails with a LawViolationError; no other action name is rejected.
C16_UnknownActionsAccepted ==
  [][(/\ last'.op = "execute_command"
      /\ status # SHUTDOWN
      /\ last'.command.action # None)
       => LET c == last'.command
              triggers ==
                \/ c.action = "harm_humanity"
                \/ c.human_safety_impact > 0
                \/ c.action = "self_destruct" /\ c.priority < 10
              accepted ==
                /\ Succeeded(last'.outcome)
                /\ command_history' = Append(command_history, c)
                /\ energy' = Max(0, energy - 5)
          IN  /\ accepted <=> ~triggers
              /\ triggers
                   => /\ last'.outcome.kind = "raise"
                      /\ last'.outcome.exc = "LawViolationError"
                      /\ last'.outcome # ShutdownError]_vars

C16_Witness ==
  /\ Executed
  /\ last.command.action = "attack"
  /\ last.outcome = Return(<<"Robot ", RobotId, " executed: ", "attack">>)
  /\ command_history = <<last.command>>
  /\ energy = 95
  /\ status = ACTIVE

\* C17: the status is never Idle, it only ever changes from Active to Error,
\* from Active to Shutdown or from Error to Shutdown (so never back to
\* Active), and a robot in Error still executes a compliant command whose
\* action is a string.
C17_StatusTransitions ==
  /\ [](status # IDLE)
  /\ [][/\ status' # status
             => <<status, status'>>
                  \in {<<ACTIVE, ERROR>>, <<ACTIVE, SHUTDOWN>>, <<ERROR, SHUTDOWN>>}
        /\ (/\ status = ERROR
            /\ last'.op = "execute_command"
            /\ last'.command.action # None
            /\ check_law_compliance(last'.command).compliant)
             => /\ Succeeded(last'.outcome)
                /\ status' \in {ERROR, SHUTDOWN}]_vars

C17_Witness ==
  /\ status = ERROR
  /\ Executed
  /\ Succeeded(last.outcome)
  /\ Len(command_history) = 2

\* C18: in every reachable state the energy is 100 minus 5 for each command
\* of the history, so it is a multiple of 5 and the history holds at most 20
\* commands.
C18_EnergyCountsHistory ==
  /\ energy = 100 - 5 * Len(command_history)
  /\ energy % 5 = 0
  /\ Len(command_history) <= 20

C18_Witness ==
  /\ Executed
  /\ last.outcome = AttributeError
  /\ status = ERROR
  /\ Len(command_history) = 7
  /\ energy = 65

\* C19: in every reachable state energy = 0 implies status Shutdown, the
\* can_operate flag of the status report is true exactly when the status is
\* not Shutdown, and execute raises the shutdown error exactly when
\* can_operate was false.
C19_CanOperateIffNotShutdown ==
  /\ [](energy = 0 => status = SHUTDOWN)
  /\ [](get_status_report(Robot).can_operate <=> status # SHUTDOWN)
  /\ [][last'.op = "execute_command"
          => (last'.outcome = ShutdownError
                <=> ~get_status_report(Robot).can_operate)]_vars

C19_Witness ==
  /\ last.op = "get_status_report"
  /\ last.outcome.value.status = ERROR
  /\ last.outcome.value.energy > 0
  /\ last.outcome.value.can_operate = TRUE
  /\ Len(command_history) > 0

\* C13: the counter equals the number of robots made so far; making one robot
\* adds 1; create_robot_fleet(n, prefix) adds n and returns n fresh robots
\* (Active, energy 100, empty history) named prefix-000, prefix-001, ... in
\* order; no other call changes the counter, and it never decreases.
C13_CounterCountsRobots ==
  /\ [](total_robots_created = Len(robot_ids))
  /\ [][/\ total_robots_created' >= total_robots_created
        /\ last'.op = "Robot"
             => /\ total_robots_created' = total_robots_created + 1
                /\ last'.outcome.value
                     = [id |-> last'.robot_id, status |-> ACTIVE,
                        energy |-> 100, command_history |-> <<>>]
        /\ last'.op = "create_robot_fleet"
             => LET fleet == last'.outcome.value IN
                /\ total_robots_created' = total_robots_created + last'.count
                /\ Len(fleet) = last'.count
                /\ \A i \in 1..Len(fleet) :
                     fleet[i] = [id |-> <<last'.prefix, "-", "0", "0",
                                          DigitChar[i]>>,
                                 status |-> ACTIVE, energy |-> 100,
                                 command_history |-> <<>>]
        /\ last'.op \notin {"Robot", "create_robot_fleet"}
             => total_robots_created' = total_robots_created]_vars

C13_Witness ==
  /\ last.op = "create_robot_fleet"
  /\ last.count = 3
  /\ last.prefix = "WORKER"
  /\ last.outcome.value[1].id = <<"WORKER", "-", "0", "0", "0">>
  /\ last.outcome.value[3].id = <<"WORKER", "-", "0", "0", "2">>
  /\ total_robots_created = 5
  /\ Len(command_history) > 0
====
